---- MODULE Spec2Model ----
(***************************************************************************)
(* A model of gitnot (src/gitnot.py): the persisted state under .gitnot,   *)
(* the working directory, and the four invocations init, commit, status    *)
(* and show.  One action is one whole invocation.  The faults of the       *)
(* environment (a copy that fails, a failing rmtree or move, an            *)
(* interrupted process) are inputs of the action.                          *)
(*                                                                         *)
(* Three smaller specifications apply one part of the program to all of    *)
(* its inputs: DeltaSpec the delta detector, RenderSpec the diff of one    *)
(* modified file and its report (difflib.unified_diff and                  *)
(* format_diff_as_markdown, on strings as sequences of characters), and    *)
(* ScanSpec the test get_all_text_files makes on one file.                 *)
(*                                                                         *)
(* Versions are counted in tenths: version.txt holds one decimal place     *)
(* (f"{version:.1f}"), and float(text) + 0.1 formatted with one decimal    *)
(* place is the next tenth, so 3 stands for the text "0.3".                *)
(* The timestamp of a changelog entry is left out.                         *)
(***************************************************************************)
EXTENDS Integers, Sequences, FiniteSets, TLC

\* ---------------------------------------------------------------- bounds

\* Commits stop once version.txt holds MaxVersion tenths.
MaxVersion == 3

\* Commits stop once a changelog holds MaxLog entries.
MaxLog == 2

\* The two versions of a modified file differ in their last MaxLines lines.
MaxLines == 3

\* A file lies at most MaxDepth directories below the working directory.
MaxDepth == 2

\* ------------------------------------------------------------ the universe

\* Relative paths of the working directory; both carry a default extension.
Paths == {"a.txt", "b.md"}

\* File contents (one line of text each).
Contents == {"x", "y"}

\* f.readlines() of a file with content c
readlines(c) == <<c>>

NoFile == "nofile"

FileStates == Contents \cup {NoFile}

\* The edits drawn: a.txt is written with either content, b.md with one.
Writes == {<<"a.txt", "x">>, <<"a.txt", "y">>, <<"b.md", "x">>}

NoFiles == [p \in Paths |-> NoFile]

NoLogs == [p \in Paths |-> <<>>]

EmptyMap == [p \in {} |-> NoFile]

\* ------------------------------------------------------------------ state

VARIABLES
    work,        \* the working directory: path -> file state
    gitnot,      \* .gitnot exists
    snapExists,  \* .gitnot/snapshot exists
    snapshot,    \* .gitnot/snapshot/<path>: content or NoFile
    deleted,     \* .gitnot/deleted/<path>: content or NoFile
    changelog,   \* .gitnot/changelogs/<path>.log: sequence of entries, <<>> = no file
    hashes,      \* hashes.json: function from a set of paths to digests
    version,     \* version.txt in tenths, 0 = no file
    last,        \* what the last invocation was and did
    render,      \* the section of one modified file being written (lines 267-282)
    scan         \* one file of rglob('*') under test in get_all_text_files

vars == <<work, gitnot, snapExists, snapshot, deleted, changelog, hashes, version,
          last, render, scan>>

\* --------------------------------------------------------------- helpers

\* The candidate files of the working directory.
get_all_text_files(w) == {p \in Paths : w[p] # NoFile}

\* hasher.hexdigest() of the content: equal exactly for equal contents.
hash_file(p, f) == <<"sha1", f>>

\* current_hashes = {str(f): hash_file(f) for f in current_files}
current_hashes(w) == [p \in get_all_text_files(w) |-> hash_file(p, w[p])]

\* float(text), 0.0 when version.txt is missing.
read_version(v) == v

\* f"{version:.1f}" written to version.txt
write_version(v) == v

\* read_version() + 0.1, written back
bump_version(v) == write_version(read_version(v) + 1)

\* One changelog section: "## v<ver>" and its body.
Entry(v, b) == [ver |-> v, body |-> b]

\* The first line init writes: "# <path> -- original v0.1".
OriginalEntry == Entry(1, "original")

\* list(difflib.unified_diff(a, b)) is empty exactly when the lines are equal.
unified_diff_is_empty(a, b) == a = b

\* ------------------------------------------------------- the delta detector

\* rel_path not in old_hashes
CommitAdded(old, cur) == {p \in DOMAIN cur : p \notin DOMAIN old}

\* Variant: the digests are not compared.
CommitModified_NoCompare(old, cur) == {p \in DOMAIN cur : p \in DOMAIN old}

\* elif old_hashes[rel_path] != new_hash
CommitModified(old, cur) ==
    {p \in DOMAIN cur : p \in DOMAIN old /\ old[p] # cur[p]}

\* rel_path in old_hashes and not in current_hashes
CommitDeleted(old, cur) == {p \in DOMAIN old : p \notin DOMAIN cur}

\* show_status: new_files
StatusNew(old, cur) == {p \in DOMAIN cur : p \notin DOMAIN old}

\* Variant: status does not compare the digests.
StatusChanged_NoCompare(old, cur) == {p \in DOMAIN cur : p \in DOMAIN old}

\* show_status: changed_files
StatusChanged(old, cur) ==
    {p \in DOMAIN cur : p \in DOMAIN old /\ old[p] # cur[p]}

\* show_status: deleted_files
StatusDeleted(old, cur) == {p \in DOMAIN old : p \notin DOMAIN cur}

\* ------------------------------------------------------- text as characters

\* A string is the sequence of its characters.
Whitespace == {" ", "\t", "\n", "\r"}

\* s.startswith(prefix)
startswith(s, prefix) ==
    Len(s) >= Len(prefix) /\ SubSeq(s, 1, Len(prefix)) = prefix

\* s[1:]
drop_first(s) == SubSeq(s, 2, Len(s))

\* s.rstrip()
RECURSIVE rstrip(_)
rstrip(s) ==
    IF s # <<>> /\ s[Len(s)] \in Whitespace
    THEN rstrip(SubSeq(s, 1, Len(s) - 1))
    ELSE s

\* s.split(): the maximal runs of characters that are not whitespace.
RECURSIVE split_from(_, _, _, _)
split_from(s, k, token, parts) ==
    IF k > Len(s)
    THEN IF token = <<>> THEN parts ELSE Append(parts, token)
    ELSE IF s[k] \in Whitespace
         THEN split_from(s, k + 1, <<>>,
                         IF token = <<>> THEN parts ELSE Append(parts, token))
         ELSE split_from(s, k + 1, Append(token, s[k]), parts)

split(s) == split_from(s, 1, <<>>, <<>>)

\* s.split(',')[0]
RECURSIVE before_comma(_)
before_comma(s) ==
    IF s = <<>> \/ s[1] = "," THEN <<>>
    ELSE <<s[1]>> \o before_comma(drop_first(s))

DigitChars == <<"0", "1", "2", "3", "4", "5", "6", "7", "8", "9">>

\* The value of a decimal digit, -1 for any other character.
digit_value(c) ==
    IF \E d \in 1..10 : DigitChars[d] = c
    THEN (CHOOSE d \in 1..10 : DigitChars[d] = c) - 1
    ELSE -1

\* int(s) of a string of decimal digits; -1 stands for ValueError.
RECURSIVE int_from(_, _)
int_from(s, n) ==
    IF s = <<>> THEN n
    ELSE IF digit_value(s[1]) < 0 THEN -1
    ELSE int_from(drop_first(s), 10 * n + digit_value(s[1]))

int(s) == IF s = <<>> THEN -1 ELSE int_from(s, 0)

\* str(n) of a natural number
RECURSIVE str(_)
str(n) ==
    IF n < 10 THEN <<DigitChars[n + 1]>>
    ELSE str(n \div 10) \o <<DigitChars[(n % 10) + 1]>>

\* ----------------------------------------------------------- unified diff

\* The texts of the lines drawn, each with its line ending: a plain line, the
\* same line with trailing whitespace, and lines that begin with "--", "++".
LineX == <<"x", "\n">>

LineXSpace == <<"x", " ", "\n">>

LineDashes == <<"-", "-", "\n">>

LinePluses == <<"+", "+", "\n">>

Texts == {LineX, LineXSpace, LineDashes, LinePluses}

\* Both files begin with the same lines, none or more than the context of a
\* hunk holds.
Leads == {0, 4}

Lead(n) == [k \in 1..n |-> LineX]

\* What follows the common lines in a file.
Tails == UNION {[1..n -> Texts] : n \in 0..MaxLines}

\* The two versions of a modified file as readlines() returns them.
FilePairs ==
    {[old |-> Lead(n) \o a, new |-> Lead(n) \o b] : n \in Leads, a \in Tails, b \in Tails}

\* One line of a diff: kept (" "), removed ("-") or added ("+").
Op(tag, text) == [tag |-> tag, text |-> text]

RECURSIVE tagged(_, _)
tagged(tag, lines) ==
    IF lines = <<>> THEN <<>>
    ELSE <<Op(tag, Head(lines))>> \o tagged(tag, Tail(lines))

\* The blocks a[i .. i+k-1] = b[j .. j+k-1] of k >= 1 equal lines.
MatchingBlocks(a, b) ==
    {m \in [i : 1..Len(a), j : 1..Len(b), k : 1..Len(a)] :
        /\ m.i + m.k - 1 <= Len(a)
        /\ m.j + m.k - 1 <= Len(b)
        /\ SubSeq(a, m.i, m.i + m.k - 1) = SubSeq(b, m.j, m.j + m.k - 1)}

\* SequenceMatcher.find_longest_match: a longest block, of these the one that
\* starts earliest in a, of these the one that starts earliest in b.
find_longest_match(blocks) ==
    CHOOSE m \in blocks :
        \A o \in blocks :
            \/ m.k > o.k
            \/ m.k = o.k /\ m.i < o.i
            \/ m.k = o.k /\ m.i = o.i /\ m.j <= o.j

\* SequenceMatcher.get_opcodes, one line each: the longest block is kept, the
\* lines left and right of it are compared in the same way, and where nothing
\* matches the lines of a are removed and then the lines of b added.
RECURSIVE get_opcodes(_, _)
get_opcodes(a, b) ==
    LET blocks == MatchingBlocks(a, b)
    IN  IF blocks = {} THEN tagged("-", a) \o tagged("+", b)
        ELSE LET m == find_longest_match(blocks)
             IN  get_opcodes(SubSeq(a, 1, m.i - 1), SubSeq(b, 1, m.j - 1))
                 \o tagged(" ", SubSeq(a, m.i, m.i + m.k - 1))
                 \o get_opcodes(SubSeq(a, m.i + m.k, Len(a)),
                                SubSeq(b, m.j + m.k, Len(b)))

\* The number of kept lines at the start of ops.
RECURSIVE leading_kept(_)
leading_kept(ops) ==
    IF ops = <<>> \/ ops[1].tag # " " THEN 0 ELSE 1 + leading_kept(Tail(ops))

\* The number of kept lines at the end of ops.
RECURSIVE trailing_kept(_)
trailing_kept(ops) ==
    IF ops = <<>> \/ ops[Len(ops)].tag # " " THEN 0
    ELSE 1 + trailing_kept(SubSeq(ops, 1, Len(ops) - 1))

\* SequenceMatcher.get_grouped_opcodes(3) for files of fewer than eight
\* lines, which give one group: of the kept lines before the first and after
\* the last change three stay; skip counts the lines left out at the start.
get_grouped_opcodes(ops) ==
    LET from == IF leading_kept(ops) > 3 THEN leading_kept(ops) - 3 ELSE 0
        to == IF trailing_kept(ops) > 3 THEN Len(ops) - (trailing_kept(ops) - 3)
              ELSE Len(ops)
    IN  IF leading_kept(ops) = Len(ops) THEN [skip |-> 0, ops |-> ops]
        ELSE [skip |-> from, ops |-> SubSeq(ops, from + 1, to)]

\* The lines of one side of a hunk.
RECURSIVE SideLines(_, _)
SideLines(ops, tag) ==
    IF ops = <<>> THEN <<>>
    ELSE (IF ops[1].tag \in {" ", tag} THEN <<ops[1].text>> ELSE <<>>)
         \o SideLines(Tail(ops), tag)

\* difflib._format_range_unified(start, stop)
format_range_unified(start, stop) ==
    LET length == stop - start
    IN  IF length = 1 THEN str(start + 1)
        ELSE IF length = 0 THEN str(start) \o <<",">> \o str(0)
        ELSE str(start + 1) \o <<",">> \o str(length)

\* '--- before' and '+++ after' (fromfile, tofile, lineterm='')
FromLine == <<"-", "-", "-", " ", "b", "e", "f", "o", "r", "e">>

ToLine == <<"+", "+", "+", " ", "a", "f", "t", "e", "r">>

\* '@@ -{} +{} @@'
HunkLine(h) ==
    <<"@", "@", " ", "-">>
        \o format_range_unified(h.skip, h.skip + Len(SideLines(h.ops, "-")))
        \o <<" ", "+">>
        \o format_range_unified(h.skip, h.skip + Len(SideLines(h.ops, "+")))
        \o <<" ", "@", "@">>

\* The lines unified_diff yields for one group: none when nothing is removed
\* or added, else the two file lines, the hunk header and the lines of the
\* hunk, each its tag followed by its text.
hunk_lines(h) ==
    IF \A k \in 1..Len(h.ops) : h.ops[k].tag = " " THEN <<>>
    ELSE <<FromLine, ToLine, HunkLine(h)>>
         \o [k \in 1..Len(h.ops) |-> <<h.ops[k].tag>> \o h.ops[k].text]

\* list(difflib.unified_diff(a, b, fromfile='before', tofile='after', lineterm=''))
unified_diff(a, b) == hunk_lines(get_grouped_opcodes(get_opcodes(a, b)))

\* ------------------------------------------------ format_diff_as_markdown

\* f"L{ln}: {text}" of the Added (sign "+") or Removed (sign "-") list
LineEntry(sign, ln, text) == [tag |-> sign, ln |-> ln, text |-> text]

\* The lines of the report that are no entries.
AddedHeading == [tag |-> "### Added", ln |-> 0, text |-> <<>>]

RemovedHeading == [tag |-> "### Removed", ln |-> 0, text |-> <<>>]

BlankLine == [tag |-> "", ln |-> 0, text |-> <<>>]

NoDiffMarker == [tag |-> "File changed (no readable diff)", ln |-> 0, text |-> <<>>]

\* The diff of the two versions (lines 270-273) and the start of the loop:
\* output, add, remove = [], [], []; old_ln = new_ln = 0; i = 0 (i counts from
\* 1 here).  hunk keeps the lines the diff is made of.
format_start(a, b) ==
    LET h == get_grouped_opcodes(get_opcodes(a, b))
    IN  [old |-> a, new |-> b, hunk |-> h, diff |-> hunk_lines(h), pc |-> "loop",
         i |-> 1, old_ln |-> 0, new_ln |-> 0, add |-> <<>>, remove |-> <<>>,
         body |-> <<>>]

\* The starting line of one side in a hunk header: int(part.split(',')[0][1:])
hunk_start(part) == int(drop_first(before_comma(part)))

\* line.startswith('@@'): the counters are set from the header.
format_header(r) ==
    LET parts == split(r.diff[r.i])
        ok == Len(parts) >= 3 /\ hunk_start(parts[2]) >= 0 /\ hunk_start(parts[3]) >= 0
    IN  IF Len(parts) < 3 THEN [r EXCEPT !.i = r.i + 1]
        ELSE [r EXCEPT !.old_ln = IF ok THEN hunk_start(parts[2]) ELSE 0,
                       !.new_ln = IF ok THEN hunk_start(parts[3]) ELSE 0,
                       !.i = r.i + 1]

\* The look-ahead test of lines 161-163.
is_identical_pair(diff, i) ==
    /\ startswith(diff[i], <<"-">>)
    /\ i + 1 <= Len(diff)
    /\ startswith(diff[i + 1], <<"+">>)
    /\ rstrip(drop_first(diff[i])) = rstrip(drop_first(diff[i + 1]))

\* Lines 164-168: skip both lines, just advance counters.
format_pair(r) ==
    [r EXCEPT !.old_ln = r.old_ln + 1, !.new_ln = r.new_ln + 1, !.i = r.i + 2]

\* Lines 170-181: a removed line, an added line, or any other line.
format_line(r) ==
    LET line == r.diff[r.i]
    IN  IF startswith(line, <<"-">>) /\ ~startswith(line, <<"-", "-", "-">>)
        THEN [r EXCEPT !.remove = Append(r.remove,
                                    LineEntry("-", r.old_ln, rstrip(drop_first(line)))),
                       !.old_ln = r.old_ln + 1, !.i = r.i + 1]
        ELSE IF startswith(line, <<"+">>) /\ ~startswith(line, <<"+", "+", "+">>)
        THEN [r EXCEPT !.add = Append(r.add,
                                    LineEntry("+", r.new_ln, rstrip(drop_first(line)))),
                       !.new_ln = r.new_ln + 1, !.i = r.i + 1]
        ELSE IF ~startswith(line, <<"\\">>)
        THEN [r EXCEPT !.old_ln = r.old_ln + 1, !.new_ln = r.new_ln + 1, !.i = r.i + 1]
        ELSE [r EXCEPT !.i = r.i + 1]

\* One iteration of the while loop.
format_iteration(r) ==
    IF startswith(r.diff[r.i], <<"@", "@">>) THEN format_header(r)
    ELSE IF is_identical_pair(r.diff, r.i) THEN format_pair(r)
    ELSE format_line(r)

\* Lines 183-192: the Added section, then the Removed section.
format_output(add, remove) ==
    (IF add # <<>> THEN <<AddedHeading>> \o add \o <<BlankLine>> ELSE <<>>)
    \o (IF remove # <<>> THEN <<RemovedHeading>> \o remove \o <<BlankLine>> ELSE <<>>)

\* Lines 279-282: what follows the "## v" header of a modified file.
section_body(r) ==
    IF r.diff # <<>> THEN format_output(r.add, r.remove) ELSE <<NoDiffMarker>>

\* No section is being written.
NoRender == format_start(<<>>, <<>>)

\* --------------------------------------------------- the file classifier

\* GITNOT_DIR
GITNOT_DIR == <<".", "g", "i", "t", "n", "o", "t">>

\* Directory names of the working directory.
DirNames == {GITNOT_DIR, <<".", "g", "i", "t", "n", "o", "t", "e", "s">>, <<"b", "u", "i", "l", "d">>, <<"d", "o", "c", "s">>}

\* File names.
FileNames == {<<"a", ".", "t", "x", "t">>, <<"A", ".", "T", "X", "T">>, <<"a", ".", "t", "m", "p">>,
              <<".", "D", "S", "_", "S", "t", "o", "r", "e">>, <<".", "g", "i", "t", "n", "o", "t", ".", "m", "d">>}

\* The files rglob('*') yields, as their parts: at most MaxDepth directories
\* and the name.
RelPaths ==
    {d \o <<n>> : d \in UNION {[1..k -> DirNames] : k \in 0..MaxDepth}, n \in FileNames}

\* The settings of config.json drawn: "extensions" and "ignore_patterns".
ExtensionLists == {{<<".", "t", "x", "t">>, <<".", "m", "d">>}, {<<".", "t", "x", "t">>, <<".", "t", "m", "p">>}}

PatternLists ==
    {<<>>,
     <<<<"*", ".", "t", "m", "p">>, <<"*", ".", "b", "a", "k">>>>,
     <<<<"b", "u", "i", "l", "d", "/", "*">>>>,
     <<<<".", "D", "S", "_", "S", "t", "o", "r", "e">>, <<"a", ".", "t", "x", "t">>>>,
     <<<<"b", "u", "i", "l", "d", "/", "*">>, <<"*", ".", "t", "m", "p">>, <<"a", ".", "t", "x", "t">>>>}

Configs == [extensions : ExtensionLists, ignore_patterns : PatternLists]

\* s.endswith(suffix)
endswith(s, suffix) ==
    Len(s) >= Len(suffix) /\ SubSeq(s, Len(s) - Len(suffix) + 1, Len(s)) = suffix

\* c in s
has_char(s, c) == \E k \in 1..Len(s) : s[k] = c

UpperCase == <<"A", "B", "C", "D", "E", "F", "G", "H", "I", "J", "K", "L", "M",
               "N", "O", "P", "Q", "R", "S", "T", "U", "V", "W", "X", "Y", "Z">>

LowerCase == <<"a", "b", "c", "d", "e", "f", "g", "h", "i", "j", "k", "l", "m",
               "n", "o", "p", "q", "r", "s", "t", "u", "v", "w", "x", "y", "z">>

\* s.lower()
lower(s) ==
    [k \in 1..Len(s) |->
        IF \E u \in 1..Len(UpperCase) : UpperCase[u] = s[k]
        THEN LowerCase[CHOOSE u \in 1..Len(UpperCase) : UpperCase[u] = s[k]]
        ELSE s[k]]

\* Path.name
name_of(path) == path[Len(path)]

\* Path.suffix: from the last dot of the name, unless that dot is the first
\* or the last character.
suffix_of(path) ==
    LET n == name_of(path)
        dots == {k \in 1..Len(n) : n[k] = "."}
    IN  IF dots = {} THEN <<>>
        ELSE LET i == CHOOSE k \in dots : \A j \in dots : j <= k
             IN  IF 1 < i /\ i < Len(n) THEN SubSeq(n, i, Len(n)) ELSE <<>>

\* str(path): the parts joined by "/"
RECURSIVE str_path(_)
str_path(path) ==
    IF Len(path) = 1 THEN path[1]
    ELSE path[1] \o <<"/">> \o str_path(Tail(path))

\* fnmatch of a name against a pattern with * and ?
RECURSIVE fnmatch(_, _)
fnmatch(s, pattern) ==
    IF pattern = <<>> THEN s = <<>>
    ELSE IF pattern[1] = "*"
    THEN fnmatch(s, Tail(pattern)) \/ (s # <<>> /\ fnmatch(Tail(s), pattern))
    ELSE /\ s # <<>>
         /\ pattern[1] = "?" \/ pattern[1] = s[1]
         /\ fnmatch(Tail(s), Tail(pattern))

\* Path.match(pattern) for a pattern without "/": the name is matched.
path_match(path, pattern) == fnmatch(name_of(path), pattern)

\* One pattern of should_ignore_file.
pattern_ignores(path, pattern) ==
    IF endswith(pattern, <<"/", "*">>)
    THEN \E k \in 1..Len(path) : path[k] = SubSeq(pattern, 1, Len(pattern) - 2)
    ELSE IF has_char(pattern, "*") \/ has_char(pattern, "?")
    THEN path_match(path, pattern)
    ELSE name_of(path) = pattern

\* should_ignore_file(file_path, ignore_patterns)
should_ignore_file(path, patterns) ==
    \E k \in 1..Len(patterns) : pattern_ignores(path, patterns[k])

\* The test of get_all_text_files on one file (f.is_file() holds).
is_candidate(path, config) ==
    /\ lower(suffix_of(path)) \in config.extensions
    /\ ~startswith(str_path(path), GITNOT_DIR)
    /\ ~should_ignore_file(path, config.ignore_patterns)

\* The file under test, the settings, and the verdict.
Scan(path, config, verdict) == [path |-> path, config |-> config, verdict |-> verdict]

\* No file is under test.
NoScan == Scan(<<>>, [extensions |-> {}, ignore_patterns |-> <<>>], "none")

\* ------------------------------------------------------ the ghost record

\* The invocation, how it ended, whether its temporary directory is left, and
\* the deleted files whose shutil.move into the archive raised.
Did(op, result, tmp) == [op |-> op, result |-> result, temp |-> tmp, unmoved |-> {}]

Quiet(op, result) == Did(op, result, FALSE)

\* ---------------------------------------------------------------- Init

Init ==
    /\ work \in [Paths -> {"x", NoFile}]
    /\ gitnot = FALSE
    /\ snapExists = FALSE
    /\ snapshot = NoFiles
    /\ deleted = NoFiles
    /\ changelog = NoLogs
    /\ hashes = EmptyMap
    /\ version = 0
    /\ last = Quiet("none", "none")
    /\ render = NoRender
    /\ scan = NoScan

\* ------------------------------------------------ edits of the working files

\* The user writes content c to path p.
EditWrite(p, c) ==
    /\ <<p, c>> \in Writes
    /\ work[p] # c
    /\ work' = [work EXCEPT ![p] = c]
    /\ last' = Quiet("edit", "none")
    /\ UNCHANGED <<gitnot, snapExists, snapshot, deleted, changelog, hashes, version, render, scan>>

\* The user removes path p.
EditRemove(p) ==
    /\ work[p] # NoFile
    /\ work' = [work EXCEPT ![p] = NoFile]
    /\ last' = Quiet("edit", "none")
    /\ UNCHANGED <<gitnot, snapExists, snapshot, deleted, changelog, hashes, version, render, scan>>

\* ------------------------------------------------------------ gitnot --init

\* The files init processes: shutil.copy2 succeeds on them.
InitCopied(w, failed) == {p \in get_all_text_files(w) : p \notin failed}

\* Variant: init moves the files into the snapshot instead of copying them.
init_gitnot_MovesFiles(failed) ==
    /\ failed \subseteq get_all_text_files(work)
    /\ LET ok == InitCopied(work, failed)
       IN  /\ gitnot' = TRUE
           /\ snapExists' = TRUE
           /\ snapshot' = [p \in Paths |->
                  IF p \in ok THEN work[p]
                  ELSE snapshot[p]]
           /\ work' = [p \in Paths |-> IF p \in ok THEN NoFile ELSE work[p]]
           /\ changelog' = [p \in Paths |->
                  IF p \in ok THEN <<OriginalEntry>> ELSE changelog[p]]
           /\ hashes' = [p \in ok |-> hash_file(p, work[p])]
           /\ version' = write_version(1)
           /\ last' = Quiet("init", "done")
    /\ UNCHANGED <<deleted, render, scan>>

\* init_gitnot; failed = the files whose shutil.copy2 fails.
init_gitnot(failed) ==
    /\ failed \subseteq get_all_text_files(work)
    /\ LET ok == InitCopied(work, failed)
       IN  /\ gitnot' = TRUE
           /\ snapExists' = TRUE
           /\ snapshot' = [p \in Paths |->
                  IF p \in ok THEN work[p]
                  ELSE snapshot[p]]
           /\ changelog' = [p \in Paths |->
                  IF p \in ok THEN <<OriginalEntry>> ELSE changelog[p]]
           /\ hashes' = [p \in ok |-> hash_file(p, work[p])]
           /\ version' = write_version(1)
           /\ last' = Quiet("init", "done")
    /\ UNCHANGED <<work, deleted, render, scan>>

\* ---------------------------------------------------- gitnot --status, --show

\* show_status
show_status ==
    /\ last' = Quiet("status", IF gitnot THEN "done" ELSE "uninit")
    /\ UNCHANGED <<work, gitnot, snapExists, snapshot, deleted, changelog, hashes, version, render, scan>>

\* show_version
show_version ==
    /\ last' = Quiet("show", "done")
    /\ UNCHANGED <<work, gitnot, snapExists, snapshot, deleted, changelog, hashes, version, render, scan>>

\* ------------------------------------------------------------------ gitnot

\* The persisted state a commit works on, and whether its temporary
\* directory (tempfile.mkdtemp) exists.
Disk == [version |-> version, changelog |-> changelog, snapshot |-> snapshot,
         snapExists |-> snapExists, deleted |-> deleted, hashes |-> hashes,
         temp |-> FALSE]

\* version = bump_version()
StBump(s) == [s EXCEPT !.version = bump_version(s.version)]

\* The section a modified path gets, <<>> when the code writes none.
ModifiedEntries(s, w, p, fault) ==
    IF ~(s.snapExists /\ s.snapshot[p] # NoFile) THEN <<>>
    ELSE IF fault = "read" THEN <<Entry(s.version, "encoding")>>
    ELSE IF unified_diff_is_empty(readlines(s.snapshot[p]), readlines(w[p]))
         THEN <<Entry(s.version, "nodiff")>>
         ELSE <<Entry(s.version, "diff")>>

\* The loop over current_hashes: changelog sections of new and modified files.
StLogs(s, w, old, cur, fault) ==
    [s EXCEPT !.changelog = [p \in Paths |->
        IF p \in CommitAdded(old, cur)
        THEN Append(s.changelog[p], Entry(s.version, "new"))
        ELSE IF p \in CommitModified(old, cur)
             THEN s.changelog[p] \o ModifiedEntries(s, w, p, fault)
             ELSE s.changelog[p]]]

\* The deleted paths whose snapshot copy shutil.move relocates.
Relocated(s, old, cur, mvFail) ==
    {p \in CommitDeleted(old, cur) :
        s.snapExists /\ s.snapshot[p] # NoFile /\ p \notin mvFail}

\* The deleted paths whose snapshot copy exists and whose shutil.move raises
\* (the except branch of lines 305-306).
Unmoved(s, old, cur, mvFail) ==
    {p \in CommitDeleted(old, cur) :
        s.snapExists /\ s.snapshot[p] # NoFile /\ p \in mvFail}

\* Variant: the snapshot copy of a deleted file is removed, not archived.
StDeleted_NoArchive(s, old, cur, mvFail) ==
    LET moved == Relocated(s, old, cur, mvFail)
    IN  [s EXCEPT
            !.snapshot = [p \in Paths |-> IF p \in moved THEN NoFile ELSE s.snapshot[p]],
            !.changelog = [p \in Paths |->
                IF p \in CommitDeleted(old, cur)
                THEN Append(s.changelog[p], Entry(s.version, "deleted"))
                ELSE s.changelog[p]]]

\* The loop over old_hashes: relocation and changelog section of deleted files.
StDeleted(s, old, cur, mvFail) ==
    LET moved == Relocated(s, old, cur, mvFail)
    IN  [s EXCEPT
            !.snapshot = [p \in Paths |-> IF p \in moved THEN NoFile ELSE s.snapshot[p]],
            !.deleted = [p \in Paths |-> IF p \in moved THEN s.snapshot[p] ELSE s.deleted[p]],
            !.changelog = [p \in Paths |->
                IF p \in CommitDeleted(old, cur)
                THEN Append(s.changelog[p], Entry(s.version, "deleted"))
                ELSE s.changelog[p]]]

\* changes_made after both loops
changes_made(old, cur) ==
    CommitAdded(old, cur) \cup CommitModified(old, cur) \cup CommitDeleted(old, cur) # {}

\* Variant: the bump is not reverted.
StRollback_KeepsBump(s) == s

\* write_version(version - 0.1)
StRollback(s) == [s EXCEPT !.version = write_version(s.version - 1)]

\* shutil.copy2 into the temporary directory raises for one of the files.
CopyFails(w, fault) == fault = "copy" /\ get_all_text_files(w) # {}

\* tempfile.mkdtemp and the copies into it
StCopy(s) == [s EXCEPT !.temp = TRUE]

\* shutil.rmtree(SNAPSHOT_DIR)
StRmtree(s) == [s EXCEPT !.snapExists = FALSE, !.snapshot = NoFiles]

\* shutil.rmtree(SNAPSHOT_DIR) failing partway: the files of kept remain.
StRmtreePartial(s, kept) ==
    [s EXCEPT !.snapshot = [p \in Paths |-> IF p \in kept THEN s.snapshot[p] ELSE NoFile]]

\* shutil.move(temp_snapshot, SNAPSHOT_DIR)
StMove(s, w) ==
    [s EXCEPT !.snapExists = TRUE, !.temp = FALSE,
              !.snapshot = [p \in Paths |-> w[p]]]

\* except (OSError, shutil.Error): shutil.rmtree(temp_snapshot)
StCleanup(s) == [s EXCEPT !.temp = FALSE]

\* save_json(HASHES_FILE, current_hashes)
StSave(s, cur) == [s EXCEPT !.hashes = cur]

\* The snapshot replacement and what follows it (lines 324-348).
StReplace(s, w, cur, fault, kept) ==
    IF CopyFails(w, fault) THEN StSave(StCleanup(StCopy(s)), cur)
    ELSE IF fault = "rmtree" THEN StSave(StCleanup(StRmtreePartial(StCopy(s), kept)), cur)
    ELSE IF fault = "move" THEN StSave(StCleanup(StRmtree(StCopy(s))), cur)
    ELSE StSave(StMove(StRmtree(StCopy(s)), w), cur)

\* The state update_gitnot leaves when it runs to its end.
CommitEnd(s, w, old, cur, mvFail, fault, kept) ==
    LET s3 == StDeleted(StLogs(StBump(s), w, old, cur, fault), old, cur, mvFail)
    IN  IF ~changes_made(old, cur) THEN StRollback(s3)
        ELSE IF ~s3.snapExists THEN s3
        ELSE StReplace(s3, w, cur, fault, kept)

\* How update_gitnot ended.
CommitResult(s, w, old, cur, fault) ==
    IF ~changes_made(old, cur) THEN "nochange"
    ELSE IF ~s.snapExists THEN "snapmissing"
    ELSE IF CopyFails(w, fault) THEN "copyfailed"
    ELSE IF fault \in {"rmtree", "move"} THEN "swapfailed"
    ELSE "committed"

\* The faults update_gitnot meets: a fault of the diff needs a modified file
\* with a snapshot copy, the others need the snapshot replacement to start.
FaultReached(s, w, old, cur, fault) ==
    \/ fault = "none"
    \/ /\ fault = "read"
       /\ \E p \in CommitModified(old, cur) : s.snapExists /\ s.snapshot[p] # NoFile
    \/ /\ fault = "copy"
       /\ changes_made(old, cur) /\ s.snapExists /\ get_all_text_files(w) # {}
    \/ /\ fault \in {"rmtree", "move"}
       /\ changes_made(old, cur) /\ s.snapExists

\* The points at which the process can be interrupted.
CrashPoints == {"bump", "logs", "deleted", "copy", "rmtree", "move"}

\* The state on disk when update_gitnot is interrupted after the step at.
CommitCrash(s, w, old, cur, at) ==
    LET s1 == StBump(s)
        s2 == StLogs(s1, w, old, cur, "none")
        s3 == StDeleted(s2, old, cur, {})
        s4 == StCopy(s3)
        s5 == StRmtree(s4)
    IN  CASE at = "bump" -> s1
          [] at = "logs" -> s2
          [] at = "deleted" -> s3
          [] at = "copy" -> s4
          [] at = "rmtree" -> s5
          [] at = "move" -> StMove(s5, w)

\* The interruption points update_gitnot reaches.
CrashReached(s, w, old, cur, at) ==
    \/ at \in {"bump", "logs", "deleted"}
    \/ changes_made(old, cur) /\ s.snapExists

Store(s) ==
    /\ version' = s.version
    /\ changelog' = s.changelog
    /\ snapshot' = s.snapshot
    /\ snapExists' = s.snapExists
    /\ deleted' = s.deleted
    /\ hashes' = s.hashes

CanCommit ==
    /\ version < MaxVersion
    /\ \A p \in Paths : Len(changelog[p]) < MaxLog

\* Variant: the version is bumped before .gitnot is looked for.
update_uninit_BumpsFirst ==
    /\ ~gitnot
    /\ version < MaxVersion
    /\ version' = bump_version(version)
    /\ last' = Quiet("commit", "uninit")
    /\ UNCHANGED <<work, gitnot, snapExists, snapshot, deleted, changelog, hashes, render, scan>>

\* update_gitnot without .gitnot
update_uninit ==
    /\ ~gitnot
    /\ last' = Quiet("commit", "uninit")
    /\ UNCHANGED <<work, gitnot, snapExists, snapshot, deleted, changelog, hashes, version, render, scan>>

\* update_gitnot running to its end
update_gitnot(mvFail, fault, kept) ==
    /\ gitnot
    /\ CanCommit
    /\ FaultReached(Disk, work, hashes, current_hashes(work), fault)
    /\ fault # "rmtree" => kept = {}
    /\ LET old == hashes
           cur == current_hashes(work)
           end == CommitEnd(Disk, work, old, cur, mvFail, fault, kept)
       IN  /\ Store(end)
           /\ last' = [Did("commit", CommitResult(Disk, work, old, cur, fault), end.temp)
                          EXCEPT !.unmoved = Unmoved(Disk, old, cur, mvFail)]
    /\ UNCHANGED <<work, gitnot, render, scan>>

\* update_gitnot interrupted after the step at
update_crash(at) ==
    /\ gitnot
    /\ CanCommit
    /\ LET old == hashes
           cur == current_hashes(work)
           end == CommitCrash(Disk, work, old, cur, at)
       IN  /\ CrashReached(Disk, work, old, cur, at)
           /\ Store(end)
           /\ last' = Did("commit", "crashed", end.temp)
    /\ UNCHANGED <<work, gitnot, render, scan>>

\* ---------------------------------------------------------- specification

\* What the environment makes fail in one commit: the reads of the diff,
\* a copy into the temporary directory, rmtree or move of the swap.
Faults == {"none", "read", "copy", "rmtree", "move"}

Next ==
    \/ \E p \in Paths, c \in Contents : EditWrite(p, c)
    \/ \E p \in Paths : EditRemove(p)
    \/ \E failed \in SUBSET Paths : init_gitnot(failed)
    \/ show_status
    \/ show_version
    \/ update_uninit
    \/ \E mvFail \in SUBSET CommitDeleted(hashes, current_hashes(work)),
          fault \in Faults,
          kept \in SUBSET {p \in Paths : snapshot[p] # NoFile} :
           update_gitnot(mvFail, fault, kept)
    \/ \E at \in CrashPoints : update_crash(at)

Spec == Init /\ [][Next]_vars

\* ------------------------------------- the delta detector on all inputs

\* The digests a HashIndex can hold: of a content, or the sentinel of an
\* unreadable file (f"unreadable-{basename}").
Digests == {<<"sha1", c>> : c \in Contents} \cup {<<"unreadable", p>> : p \in Paths}

\* Every HashIndex over the paths.
HashMaps == UNION {[S -> Digests] : S \in SUBSET Paths}

\* An initialized directory with any HashIndex and any working files.
DeltaInit ==
    /\ work \in [Paths -> FileStates]
    /\ hashes \in HashMaps
    /\ gitnot = TRUE
    /\ snapExists = TRUE
    /\ snapshot = NoFiles
    /\ deleted = NoFiles
    /\ changelog = NoLogs
    /\ version = 1
    /\ last = Quiet("none", "none")
    /\ render = NoRender
    /\ scan = NoScan

DeltaNext ==
    \/ show_status
    \/ update_gitnot({}, "none", {})

DeltaSpec == DeltaInit /\ [][DeltaNext]_vars

\* ------------------------------------- the section of one modified file

\* Nothing was run in the directory.
AtRest ==
    /\ work = NoFiles
    /\ gitnot = FALSE
    /\ snapExists = FALSE
    /\ snapshot = NoFiles
    /\ deleted = NoFiles
    /\ changelog = NoLogs
    /\ hashes = EmptyMap
    /\ version = 0
    /\ last = Quiet("none", "none")

\* The commit has read the two versions of a modified file and has computed
\* their diff.
RenderInit ==
    /\ AtRest
    /\ render \in {format_start(f.old, f.new) : f \in FilePairs}
    /\ scan = NoScan

\* One iteration of the loop of format_diff_as_markdown.
format_step ==
    /\ render.pc = "loop"
    /\ render.diff # <<>>
    /\ render.i <= Len(render.diff)
    /\ render' = format_iteration(render)
    /\ UNCHANGED <<work, gitnot, snapExists, snapshot, deleted, changelog, hashes,
                   version, last, scan>>

\* The loop is over, or there was no diff: the body of the section is written.
write_section ==
    /\ render.pc = "loop"
    /\ render.diff = <<>> \/ render.i > Len(render.diff)
    /\ render' = [render EXCEPT !.pc = "written", !.body = section_body(render)]
    /\ UNCHANGED <<work, gitnot, snapExists, snapshot, deleted, changelog, hashes,
                   version, last, scan>>

RenderNext == format_step \/ write_section

RenderSpec == RenderInit /\ [][RenderNext]_vars

\* ----------------------------------------------- the classifier on one file

\* rglob('*') has yielded a file.
ScanInit ==
    /\ AtRest
    /\ render = NoRender
    /\ scan \in {Scan(p, c, "pending") : p \in RelPaths, c \in Configs}

\* The file is appended to files, or not.
classify_file ==
    /\ scan.verdict = "pending"
    /\ scan' = [scan EXCEPT !.verdict =
                   IF is_candidate(scan.path, scan.config) THEN "candidate" ELSE "skipped"]
    /\ UNCHANGED <<work, gitnot, snapExists, snapshot, deleted, changelog, hashes,
                   version, last, render>>

ScanNext == classify_file

ScanSpec == ScanInit /\ [][ScanNext]_vars

\* ------------------------------------------------------------ properties

TypeOK ==
    /\ work \in [Paths -> FileStates]
    /\ gitnot \in BOOLEAN
    /\ snapExists \in BOOLEAN
    /\ snapshot \in [Paths -> FileStates]
    /\ deleted \in [Paths -> FileStates]
    /\ \A p \in Paths : Len(changelog[p]) <= MaxLog
    /\ DOMAIN hashes \subseteq Paths
    /\ version \in 0..MaxVersion
    /\ ~snapExists => snapshot = NoFiles

IsPrefix(s, t) == Len(s) <= Len(t) /\ SubSeq(t, 1, Len(s)) = s

\* The paths stored in the Snapshot Tree.
SnapshotPaths == {p \in Paths : snapshot[p] # NoFile}

\* The step is a commit that ran to its end in an initialized directory.
CommitRan == last'.op = "commit" /\ last'.result \notin {"uninit", "crashed"}

\* The classification the commit of this step works with.
Added == CommitAdded(hashes, current_hashes(work))

Modified == CommitModified(hashes, current_hashes(work))

Deleted == CommitDeleted(hashes, current_hashes(work))

\* In both maps with equal digests.
Unchanged(old, cur) == {p \in DOMAIN old \cap DOMAIN cur : old[p] = cur[p]}

\* ------------------------------------ statements about the invocations

\* C1: a commit that runs to its end and in which the delta detector finds
\* no added, modified or deleted path leaves version.txt, hashes.json and the
\* Snapshot Tree as they were and appends no changelog entry.
C1_NoChangeCommitIsNoOp ==
    [][(CommitRan /\ ~changes_made(hashes, current_hashes(work)))
        => /\ version' = version
           /\ hashes' = hashes
           /\ snapshot' = snapshot
           /\ snapExists' = snapExists
           /\ changelog' = changelog]_vars

\* A commit found nothing to do after an earlier commit had moved the
\* version past 0.1 and with a file tracked.
C1_Witness ==
    /\ last.op = "commit"
    /\ last.result = "nochange"
    /\ version >= 2
    /\ DOMAIN hashes # {}

\* C2: after every completed invocation the paths stored in the Snapshot
\* Tree are exactly the keys of hashes.json.
C2_SnapshotMatchesIndex ==
    (gitnot /\ last.op \in {"init", "commit", "status", "show"}
            /\ last.result # "crashed")
        => SnapshotPaths = DOMAIN hashes

\* C3: a commit whose materialization or swap failed leaves hashes.json with
\* the mapping it held before the commit.
C3_FailedSwapKeepsIndex ==
    [][(last'.op = "commit" /\ last'.result \in {"copyfailed", "swapfailed"})
        => hashes' = hashes]_vars

\* C4: a commit in which a copy into the temporary location failed ends with
\* the temporary location removed and the Snapshot Tree as it was before.
C4_FailedCopyKeepsSnapshot ==
    [][(last'.op = "commit" /\ last'.result = "copyfailed")
        => /\ ~last'.temp
           /\ snapshot' = snapshot
           /\ snapExists' = snapExists]_vars

\* C5: an interrupted commit leaves the pair (Snapshot Tree, hashes.json)
\* either as it was before the commit or as the completed commit makes it.
C5_CrashLeavesOldOrNewPair ==
    [][(last'.op = "commit" /\ last'.result = "crashed")
        => \/ /\ snapshot' = snapshot
              /\ snapExists' = snapExists
              /\ hashes' = hashes
           \/ /\ snapshot' = [p \in Paths |-> work[p]]
              /\ snapExists'
              /\ hashes' = current_hashes(work)]_vars

\* C6: a commit that runs to its end raises the stored version exactly when
\* it replaced the Snapshot Tree and hashes.json; it leaves the version as
\* it was when the snapshot folder is missing or the replacement failed.
C6_BumpOnlyWithReplacement ==
    [][CommitRan
        => /\ (version' > version) <=> (last'.result = "committed")
           /\ last'.result \in {"snapmissing", "copyfailed", "swapfailed"}
                 => version' = version]_vars

\* C7: the stored version never decreases, and a commit that detects a
\* change raises it by exactly one tenth.
C7_VersionMonotone ==
    [][/\ version' >= version
       /\ (CommitRan /\ changes_made(hashes, current_hashes(work)))
             => version' = version + 1]_vars

\* C8: every existing changelog is a prefix of itself after any invocation
\* (so it is never rewritten, truncated or removed).
C8_ChangelogAppendOnly ==
    [][\A p \in Paths :
          changelog[p] # <<>> => IsPrefix(changelog[p], changelog'[p])]_vars

\* C9: a commit that detects changes appends exactly one section, headed
\* with the new version, to the changelog of each added, modified and deleted
\* path (new-file marker, diff report or generic marker, deleted marker) and
\* nothing to the changelog of any other path.
C9_OneEntryPerAffectedPath ==
    [][(CommitRan /\ changes_made(hashes, current_hashes(work)))
        => \A p \in Paths :
              IF p \in Added
              THEN changelog'[p] = Append(changelog[p], Entry(version', "new"))
              ELSE IF p \in Modified
              THEN \E b \in {"diff", "nodiff", "encoding"} :
                      changelog'[p] = Append(changelog[p], Entry(version', b))
              ELSE IF p \in Deleted
              THEN changelog'[p] = Append(changelog[p], Entry(version', "deleted"))
              ELSE changelog'[p] = changelog[p]]_vars

\* The categories partition the paths of the two maps.
Partition(a, m, d, u, old, cur) ==
    /\ a \cap m = {} /\ a \cap d = {} /\ a \cap u = {}
    /\ m \cap d = {} /\ m \cap u = {} /\ d \cap u = {}
    /\ a \cup m \cup d \cup u = DOMAIN old \cup DOMAIN cur

\* C10: for every old HashIndex and every current hash map the sets Added,
\* Modified, Deleted (as commit and as status compute them) and Unchanged are
\* pairwise disjoint and cover exactly the paths that are keys of either map.
C10_DeltaPartitions ==
    LET old == hashes
        cur == current_hashes(work)
    IN  /\ Partition(CommitAdded(old, cur), CommitModified(old, cur),
                     CommitDeleted(old, cur), Unchanged(old, cur), old, cur)
        /\ Partition(StatusNew(old, cur), StatusChanged(old, cur),
                     StatusDeleted(old, cur), Unchanged(old, cur), old, cur)

\* Status ran on maps with a modified and a deleted path.
C10_Witness ==
    /\ last.op = "status"
    /\ StatusChanged(hashes, current_hashes(work)) # {}
    /\ StatusDeleted(hashes, current_hashes(work)) # {}

\* C11: on the same directory state status and commit compute the same sets
\* of added, modified and deleted paths, and status finds no change exactly
\* when the commit that runs on this state leaves the version it found.
C11_StatusAgreesWithCommit ==
    [][LET old == hashes
           cur == current_hashes(work)
       IN  /\ StatusNew(old, cur) = CommitAdded(old, cur)
           /\ StatusChanged(old, cur) = CommitModified(old, cur)
           /\ StatusDeleted(old, cur) = CommitDeleted(old, cur)
           /\ CommitRan =>
                 ((StatusNew(old, cur) \cup StatusChanged(old, cur)
                     \cup StatusDeleted(old, cur) = {})
                   <=> (last'.result = "nochange" /\ version' = version))]_vars

\* A commit rolled its bump back on a HashIndex that covers every path.
C11_Witness ==
    /\ last.op = "commit"
    /\ last.result = "nochange"
    /\ DOMAIN hashes = Paths
    /\ version = 1

C13_BumpReportMeansFaithfulState ==
    [][(/\ CommitRan
        /\ changes_made(hashes, current_hashes(work))
        /\ last'.result \in {"committed", "copyfailed", "swapfailed"})
        => /\ snapExists'
           /\ snapshot' = [p \in Paths |-> work[p]]
           /\ hashes' = current_hashes(work)]_vars

\* C14: a commit or a status run without .gitnot leaves every persisted
\* item (the directories, the snapshot, the archive, the changelogs,
\* hashes.json, version.txt) and the working directory as they were.
C14_UninitializedIsNoOp ==
    [][(last'.op \in {"commit", "status"} /\ last'.result = "uninit")
        => /\ ~gitnot
           /\ UNCHANGED <<work, gitnot, snapExists, snapshot, deleted,
                          changelog, hashes, version>>]_vars

\* A commit was refused in a directory that holds files and no .gitnot.
C14_Witness ==
    /\ last.op = "commit"
    /\ last.result = "uninit"
    /\ ~gitnot
    /\ version = 0
    /\ work["a.txt"] # NoFile

\* ------------------------------------- statements about the diff renderer

\* Line k of the hunk is removed and line k + 1 is added with the same text
\* up to trailing whitespace.
WhitespacePair(ops, k) ==
    /\ k + 1 <= Len(ops)
    /\ ops[k].tag = "-"
    /\ ops[k + 1].tag = "+"
    /\ rstrip(ops[k].text) = rstrip(ops[k + 1].text)

\* The two files have the same lines up to trailing whitespace and line
\* endings, and differ.
WhitespaceOnlyChange(a, b) ==
        /\ a # b
        /\ Len(a) = Len(b)
        /\ \A k \in 1..Len(a) : rstrip(a[k]) = rstrip(b[k])

\* The loop is at line k of the hunk (three lines precede the hunk's lines).
AtOp(k) == render.pc = "loop" /\ render.diff # <<>> /\ render.i = k + 3

\* C15: when the loop comes to a removed line directly followed by an added
\* line with the same text up to trailing whitespace, it adds no entry and
\* advances both line counters by one; and the report of a change that alters
\* only trailing whitespace or line endings has no Added and no Removed entry.
C15_WhitespacePairsSuppressed ==
    [][/\ \A k \in 1..Len(render.hunk.ops) :
             (AtOp(k) /\ WhitespacePair(render.hunk.ops, k))
             => /\ render'.add = render.add
                /\ render'.remove = render.remove
                /\ render'.old_ln = render.old_ln + 1
                /\ render'.new_ln = render.new_ln + 1
       /\ (render'.pc = "written" /\ WhitespaceOnlyChange(render.old, render.new))
             => render'.add = <<>> /\ render'.remove = <<>>]_vars

\* A pair at which the loop arrives adds no entry and advances both counters.
PairStepSuppressed ==
    [][\A k \in 1..Len(render.hunk.ops) :
          (AtOp(k) /\ WhitespacePair(render.hunk.ops, k))
          => /\ render'.add = render.add
             /\ render'.remove = render.remove
             /\ render'.old_ln = render.old_ln + 1
             /\ render'.new_ln = render.new_ln + 1]_vars

\* C17: the body written after the header of a modified file is never
\* empty: it holds at least one Added or Removed entry or the generic marker,
\* and it is the generic marker when every line of the diff was suppressed.
C17_ModifiedBodyNotEmpty ==
    render.pc = "written"
        => /\ \E k \in 1..Len(render.body) :
                 render.body[k].tag \in {"+", "-"} \/ render.body[k] = NoDiffMarker
           /\ (render.add = <<>> /\ render.remove = <<>>)
                 => render.body = <<NoDiffMarker>>

\* The entries of one section (sign "-": Removed, "+": Added) that the lines
\* of a hunk call for: every removed or added line that is in no suppressed
\* pair, with its line number in its file (o, n: the numbers of the next old
\* and new line), in the order of the hunk.
RECURSIVE ExpectedEntries(_, _, _, _)
ExpectedEntries(ops, o, n, sign) ==
    IF ops = <<>> THEN <<>>
    ELSE IF WhitespacePair(ops, 1)
    THEN ExpectedEntries(SubSeq(ops, 3, Len(ops)), o + 1, n + 1, sign)
    ELSE IF ops[1].tag = "-"
    THEN (IF sign = "-" THEN <<LineEntry("-", o, rstrip(ops[1].text))>> ELSE <<>>)
         \o ExpectedEntries(Tail(ops), o + 1, n, sign)
    ELSE IF ops[1].tag = "+"
    THEN (IF sign = "+" THEN <<LineEntry("+", n, rstrip(ops[1].text))>> ELSE <<>>)
         \o ExpectedEntries(Tail(ops), o, n + 1, sign)
    ELSE ExpectedEntries(Tail(ops), o + 1, n + 1, sign)

\* C18: the Added and the Removed list of the report hold, in the order of
\* the diff and each once, exactly the added and the removed lines that are in
\* no suppressed pair, each with its 1-based number in the new and the old
\* file, whatever its text; and the Added section comes before the Removed.
C18_EveryChangedLineListed ==
    render.pc = "written"
        => LET h == render.hunk
           IN  /\ render.add = ExpectedEntries(h.ops, h.skip + 1, h.skip + 1, "+")
               /\ render.remove = ExpectedEntries(h.ops, h.skip + 1, h.skip + 1, "-")
               /\ \A j, k \in 1..Len(render.body) :
                     (render.body[j] = AddedHeading /\ render.body[k] = RemovedHeading)
                     => j < k

\* ---------------------------------------- statement about the classifier

\* The extension is in the allow-set, letter case aside.
ExtensionAllowed(path, config) ==
    \E e \in config.extensions : lower(e) = lower(suffix_of(path))

\* The file lies in the directory .gitnot of the working directory.
InsideGitnot(path) == Len(path) > 1 /\ path[1] = GITNOT_DIR

\* A rule "<dir>/*" matches a path with a segment equal to <dir>, a rule
\* with a wildcard matches by the file name, any other rule matches the
\* files of exactly that name.
RuleMatches(path, rule) ==
    IF endswith(rule, <<"/", "*">>)
    THEN \E k \in 1..Len(path) : path[k] \o <<"/", "*">> = rule
    ELSE IF has_char(rule, "*") \/ has_char(rule, "?")
    THEN fnmatch(path[Len(path)], rule)
    ELSE path[Len(path)] = rule

\* C16: a file is a candidate exactly when its extension is in the
\* allow-set (letter case aside), it does not lie in .gitnot, and no ignore
\* rule matches it; so a file outside .gitnot whose path only begins with the
\* characters ".gitnot" is a candidate.
C16_CandidateIffAllowed ==
    scan.verdict \in {"candidate", "skipped"}
        => (scan.verdict = "candidate"
              <=> /\ ExtensionAllowed(scan.path, scan.config)
                  /\ ~InsideGitnot(scan.path)
                  /\ \A k \in 1..Len(scan.config.ignore_patterns) :
                        ~RuleMatches(scan.path, scan.config.ignore_patterns[k]))

\* --------------------------------- statements about sequences of invocations

\* C19: in every changelog the versions of the "## v" section headers
\* increase strictly from top to bottom, so no two commits head a section of
\* one changelog with the same version.
C19_HeaderVersionsIncrease ==
    \A p \in Paths :
        \A j, k \in 1..Len(changelog[p]) :
            (/\ j < k
             /\ changelog[p][j].body # "original"
             /\ changelog[p][k].body # "original")
            => changelog[p][j].ver < changelog[p][k].ver

\* C20: init, commit, status and show, however they end (also after a
\* failed copy or swap and when interrupted), leave every file of the working
\* directory as it was.
C20_WorkingFilesUntouched ==
    [][last'.op \in {"init", "commit", "status", "show"} => work' = work]_vars

\* A commit whose snapshot replacement failed ran in a directory that holds
\* both files.
C20_Witness ==
    /\ last.op = "commit"
    /\ last.result = "swapfailed"
    /\ work["a.txt"] # NoFile
    /\ work["b.md"] # NoFile

====
